---- MODULE Spec2Model ----
\* A model of g03mpqb: the command runner (src/src/g03mpqb/command.py) and the
\* application bootstrap and direct-message handler (src/src/g03mpqb/app.py).
\*
\* Representation.
\*   Text        a Python str, as a sequence of atoms. An atom is a one-character
\*               string ("p", " ") or a literal chunk ("Failed to execute
\*               command."); concatenation is \o, the empty str is << >>.
\*   Optional    Python's `x | None`: None is << >>, a value v is << v >>.
\*   dict        a function whose DOMAIN is the set of keys present.
EXTENDS Integers, Sequences, FiniteSets, TLC

VARIABLES
    argv,        \* the command line after the program name
    file,        \* what open()/json.load() find at the config path
    pc,          \* position of main() / App.__init__
    arg_config,  \* args.config: Optional path
    config,      \* App._config: Optional dict (the parsed JSON document)
    commander,   \* Commander._commands: Optional dict name -> Command
    client,      \* the BotClient: constructed, listener registered, run started/returned
    exitcode,    \* Optional process exit code
    raised,      \* the exception caught by main's `except Exception` ("" when none)
    stdout,      \* the lines print() wrote, in order (each a Text)
    handlers,    \* one record per on_direct_message_create invocation, in arrival order
    popenCalls   \* number of subprocess.Popen calls made so far

vars == << argv, file, pc, arg_config, config, commander, client, exitcode,
           raised, stdout, handlers, popenCalls >>

-----------------------------------------------------------------------------
\* Bounds of the model.

\* Number of direct messages the environment delivers in one run.
MaxMsgs == 2

\* Longest message content (in characters) enumerated for the trimming check.
MaxLen == 3

-----------------------------------------------------------------------------
\* Optional values and dict access.

None == << >>

Some(v) == << v >>

\* A lookup that falls back to the lower-cased key (not what the code does).
GetFolded(d, k) ==
    LET lower == [i \in DOMAIN k |-> IF k[i] = "P" THEN "p" ELSE k[i]]
    IN  IF k \in DOMAIN d THEN << d[k] >>
        ELSE IF lower \in DOMAIN d THEN << d[lower] >> ELSE << >>

\* dict.get(key) -> value | None: an exact match on the key.
Get(d, k) == IF k \in DOMAIN d THEN Some(d[k]) ELSE None

\* dict.get(key, default)
GetOr(d, k, default) == IF k \in DOMAIN d THEN d[k] ELSE default

-----------------------------------------------------------------------------
\* Text.

\* The whitespace characters of the model (str.strip() removes these).
Whitespace == {" ", "\t"}

\* The characters message contents are written with.
Alphabet == {"p", "P"} \cup Whitespace

RECURSIVE lstrip(_)
lstrip(s) ==
    IF s # << >> /\ Head(s) \in Whitespace THEN lstrip(Tail(s)) ELSE s

RECURSIVE rstrip(_)
rstrip(s) ==
    IF s # << >> /\ s[Len(s)] \in Whitespace
    THEN rstrip(SubSeq(s, 1, Len(s) - 1))
    ELSE s

\* Trimming on the left only (not what the code does).
strip_leading_only(s) == lstrip(s)

\* str.strip(): leading and trailing whitespace removed, nothing else changed.
strip(s) == rstrip(lstrip(s))

\* Every content of at most n characters over Alphabet.
Texts(n) == UNION {[1..k -> Alphabet] : k \in 0..n}

\* The reply texts composed in AppOnMessageListener.on_direct_message_create.
FAILED_REPLY == << "Failed to execute command." >>

EXECUTED_REPLY == << "Executed command successfully." >>

-----------------------------------------------------------------------------
\* command.py: Commander.

\* What the operating system answers to a process-creation request.
OsOutcomes == {"ok", "OSError"}

\* str(err) for the exceptions subprocess.Popen raises.
ErrText(exc) ==
    IF exc = "IndexError"
    THEN << "list index out of range" >>
    ELSE << "[Errno 2] No such file or directory" >>

\* subprocess.Popen(execute, shell=shell). Without a shell the executable is
\* execute[0], so an empty vector raises IndexError before any process is
\* requested; with a shell the vector is appended to [sh, -c] and a process is
\* requested even for an empty vector. The call returns as soon as the child
\* exists (created) or raises when the OS refuses; it never waits for exit.
Popen(execute, shell, os) ==
    IF ~shell /\ execute = << >>
    THEN [exc |-> "IndexError", created |-> FALSE]
    ELSE IF os = "ok"
         THEN [exc |-> "", created |-> TRUE]
         ELSE [exc |-> "OSError", created |-> FALSE]

\* The body of the try statement: command["execute"], command.get("shell",
\* False), subprocess.Popen(...). exc is the exception leaving the body.
TryBody(command, os) ==
    IF "execute" \notin DOMAIN command
    THEN [exc |-> "KeyError", called |-> FALSE, created |-> FALSE]
    ELSE LET execute == command["execute"]
             shell   == GetOr(command, "shell", FALSE)
             p       == Popen(execute, shell, os)
         IN  [exc |-> p.exc, called |-> TRUE, created |-> p.created]

\* A try statement whose generic clause comes first, so that it also takes the
\* KeyError (not what the code does).
except_clause_generic_first(exc) ==
    IF exc # "" THEN "except Exception" ELSE "else"

\* A try statement without the generic clause (not what the code does).
except_clause_keyerror_only(exc) ==
    IF exc = "KeyError" THEN "except KeyError"
    ELSE IF exc # "" THEN "uncaught" ELSE "else"

\* The clause of the try statement that runs when exc leaves its body: the
\* first matching except clause, the else clause when nothing was raised.
\* Every exception Popen raises is an Exception, so none is "uncaught".
except_clause(exc) ==
    IF exc = "KeyError" THEN "except KeyError"
    ELSE IF exc # "" THEN "except Exception"
    ELSE "else"

MissingExecuteText(name) ==
    << "Loaded command '" >> \o name \o << "' is missing 'execute' field." >>

FailedToExecuteText(name, exc) ==
    << "Failed to execute command '" >> \o name \o << "': " >> \o ErrText(exc)

\* Commander.run_command_noblock(name). ret is the returned `str | None`;
\* raised names an exception that leaves the method ("" when it returns);
\* called/created tell whether Popen was called and whether a child exists;
\* printed and errors are what it wrote to stdout and to logger.error.
run_command_noblock(commands, name, os) ==
    LET command == Get(commands, name)
        quiet   == [raised |-> "", called |-> FALSE, created |-> FALSE,
                    printed |-> << >>, errors |-> << >>]
    IN  IF command = None
        THEN quiet @@ [ret |-> None]
        ELSE LET t == TryBody(command[1], os)
                 ran == [quiet EXCEPT !.called = t.called, !.created = t.created]
                 clause == except_clause(t.exc)
             IN  IF clause = "uncaught"
                 THEN [ran EXCEPT !.raised = t.exc] @@ [ret |-> None]
                 ELSE IF clause = "except KeyError"
                 THEN [ran EXCEPT
                          !.printed = << MissingExecuteText(name) >>,
                          !.errors = << [level |-> "ERROR",
                                         fmt |-> "Loaded command '%s' is missing 'execute' field.",
                                         args |-> << name >>] >>]
                      @@ [ret |-> None]
                 ELSE IF clause = "except Exception"
                 THEN ran @@ [ret |-> Some(FailedToExecuteText(name, t.exc))]
                 ELSE ran @@ [ret |-> Some(GetOr(command[1], "response", << >>))]

-----------------------------------------------------------------------------
\* app.py: the direct-message handler.

\* A reply that passes the response through even when it is empty (not what
\* the code does).
ReplyContentUnchecked(resp) == resp

\* `resp if resp else "Executed command successfully."`
ReplyContent(resp) == IF resp # << >> THEN resp ELSE EXECUTED_REPLY

\* AppOnMessageListener.on_direct_message_create(message) with the Commander's
\* table `commands`: the reply text, the name dispatched and the log entries.
on_direct_message_create(commands, message, os) ==
    LET cmd_name == strip(message.content)
        resp     == run_command_noblock(commands, cmd_name, os)
        base     == [cmd_name |-> cmd_name, ret |-> resp.ret,
                     raised |-> resp.raised, called |-> resp.called,
                     created |-> resp.created, printed |-> resp.printed]
    IN  IF resp.raised # ""
        THEN base @@ [reply_content |-> None, logs |-> resp.errors]
        ELSE IF resp.ret = None
        THEN base @@
             [reply_content |-> Some(FAILED_REPLY),
              logs |-> resp.errors \o
                       << [level |-> "INFO", fmt |-> "Failed command from %s: %s",
                           args |-> << message.author, cmd_name >>] >>]
        ELSE LET reply == ReplyContent(resp.ret[1])
             IN  base @@
                 [reply_content |-> Some(reply),
                  logs |-> resp.errors \o
                           << [level |-> "INFO",
                               fmt |-> "Executed command from %s: %s -> %s",
                               args |-> << message.author, cmd_name, reply >>] >>]

-----------------------------------------------------------------------------
\* app.py: configuration.

\* An accessor that answers None for a missing key (not what the code does).
require_config_entry_or_none(config_dict, key) ==
    [exc |-> "", missing |-> "",
     value |-> << IF key \in DOMAIN config_dict THEN config_dict[key] ELSE << >> >>]

\* App.Config.require_config_entry(config_dict, key): the value, or ConfigError
\* carrying the missing key.
require_config_entry(config_dict, key) ==
    IF key \in DOMAIN config_dict
    THEN [exc |-> "", missing |-> "", value |-> Some(config_dict[key])]
    ELSE [exc |-> "ConfigError", missing |-> key, value |-> None]

\* App.Config._config_entry(key, required=, default=). The key is the name of
\* the calling property, which each accessor below passes as `key`.
config_entry(conf_dict, key, required, default) ==
    IF required
    THEN require_config_entry(conf_dict, key)
    ELSE [exc |-> "", missing |-> "", value |-> Some(GetOr(conf_dict, key, default))]

\* The properties App.Config.appid, .secret and .commands.
appid(conf_dict) == config_entry(conf_dict, "appid", TRUE, None)

secret(conf_dict) == config_entry(conf_dict, "secret", TRUE, None)

commands(conf_dict) == config_entry(conf_dict, "commands", FALSE, << >>)

\* A command table exercising every shape of command the runner distinguishes.
\* Keys are Texts; "p" plays the spec's `ping`.
CommandTable ==
    ( << "p" >>           :> [execute |-> << "echo", "pong" >>, response |-> << "pong!" >>] ) @@
    ( << "p", "p" >>      :> [execute |-> << "/bin/does-not-exist" >>] ) @@
    ( << "P" >>           :> [response |-> << "never sent" >>] ) @@
    ( << "p", " ", "p" >> :> [execute |-> << >>] ) @@
    ( << "P", "P" >>      :> [execute |-> << >>, shell |-> TRUE] ) @@
    ( << "p", "P" >>      :> [execute |-> << "true" >>, response |-> FAILED_REPLY] ) @@
    ( << "P", " ", "P" >> :> [execute |-> << "sleep 1000" >>, shell |-> TRUE,
                              response |-> << >>] ) @@
    ( << " ", "P" >>      :> [execute |-> << "true" >>, response |-> << "unreachable" >>] )

\* The config documents tried: complete, without `commands`, and with one or
\* both required keys missing.
Docs ==
    << [appid |-> << "A" >>, secret |-> << "S" >>, commands |-> CommandTable],
       [appid |-> << "A" >>, secret |-> << "S" >>],
       [secret |-> << "S" >>, commands |-> CommandTable],
       [appid |-> << "A" >>, commands |-> CommandTable],
       [commands |-> CommandTable] >>

\* What the config path holds: nothing readable, text that is not JSON, or a
\* JSON document.
Files ==
    { [status |-> "IOError", doc |-> 0], [status |-> "JSONDecodeError", doc |-> 0] }
    \cup { [status |-> "ok", doc |-> i] : i \in 1..Len(Docs) }

\* open(config_path) and App.Config.load_json: the parsed dict or the exception.
load_json(f) ==
    IF f.status = "ok"
    THEN [exc |-> "", conf_dict |-> Some(Docs[f.doc])]
    ELSE [exc |-> f.status, conf_dict |-> None]

-----------------------------------------------------------------------------
\* app.py: main().

Argvs ==
    { << >>, << "-c", "conf.json" >>, << "--config", "conf.json" >>,
      << "-c" >>, << "-h" >>, << "-x" >> }

\* parser.parse_args() for the parser main() builds: one optional argument
\* -c/--config taking one value, plus argparse's own -h. A command line it
\* rejects ends the process with status 2, -h prints the help and ends it with
\* status 0 (SystemExit, raised outside main's try statement).
parse_args(av) ==
    IF \E i \in 1..Len(av) : av[i] = "-h"
    THEN [exit |-> Some(0), config |-> None]
    ELSE IF av = << >>
    THEN [exit |-> None, config |-> None]
    ELSE IF Len(av) = 2 /\ av[1] \in {"-c", "--config"}
    THEN [exit |-> None, config |-> Some(av[2])]
    ELSE [exit |-> Some(2), config |-> None]

\* A main() that returns 0 from both clauses (not what the code does).
main_return_zero(exc) == 0

\* The value main() returns: 1 from the except clause, 0 from the else clause.
main_return(exc) == IF exc # "" THEN 1 ELSE 0

\* The line main() prints for the exception it caught.
ErrorLine(exc, detail) == << "Error:", exc, ": ", detail >>

\* main()'s `except Exception as err` clause and sys.exit(main()).
Fail(exc, detail, printedBefore) ==
    /\ pc' = "exited"
    /\ raised' = exc
    /\ exitcode' = Some(main_return(exc))
    /\ stdout' = stdout \o printedBefore \o << ErrorLine(exc, detail) >>

NoClient == [constructed |-> FALSE, listener |-> FALSE, started |-> FALSE,
             returned |-> FALSE]

Init ==
    /\ argv \in Argvs
    /\ file \in Files
    /\ pc = "main"
    /\ arg_config = None
    /\ config = None
    /\ commander = None
    /\ client = NoClient
    /\ exitcode = None
    /\ raised = ""
    /\ stdout = << >>
    /\ handlers = << >>
    /\ popenCalls = 0

\* main(): parser.parse_args().
ParseArgs ==
    /\ pc = "main"
    /\ LET a == parse_args(argv)
       IN  IF a.exit # None
           THEN /\ pc' = "exited"
                /\ exitcode' = a.exit
                /\ UNCHANGED arg_config
           ELSE /\ pc' = "parsed"
                /\ arg_config' = a.config
                /\ UNCHANGED exitcode
    /\ UNCHANGED << argv, file, config, commander, client, raised, stdout,
                    handlers, popenCalls >>

\* main(): the check of args.config, then App.__init__ up to "Config loaded.".
LoadConfig ==
    /\ pc = "parsed"
    /\ IF arg_config = None
       THEN /\ Fail("ValueError", "Config file path is required",
                    << << "Config file path required (-c/--config)." >> >>)
            /\ UNCHANGED config
       ELSE LET l == load_json(file)
            IN  IF l.exc = "IOError"
                THEN /\ Fail(l.exc, "cannot open",
                             << << "Loading config..." >>, << "Failed to read config file." >> >>)
                     /\ UNCHANGED config
                ELSE IF l.exc = "JSONDecodeError"
                THEN /\ Fail(l.exc, "invalid JSON",
                             << << "Loading config..." >>, << "Failed to parse JSON config file." >> >>)
                     /\ UNCHANGED config
                ELSE /\ config' = l.conf_dict
                     /\ pc' = "loaded"
                     /\ stdout' = stdout \o << << "Loading config..." >>, << "Config loaded." >> >>
                     /\ UNCHANGED << raised, exitcode >>
    /\ UNCHANGED << argv, file, arg_config, commander, client, handlers, popenCalls >>

\* App.__init__: Commander(config.commands).
BuildCommander ==
    /\ pc = "loaded"
    /\ commander' = commands(config[1]).value
    /\ pc' = "commander"
    /\ UNCHANGED << argv, file, arg_config, config, client, exitcode, raised,
                    stdout, handlers, popenCalls >>

\* App.__init__: BotClient(intents=intents).
ConstructClient ==
    /\ pc = "commander"
    /\ client' = [client EXCEPT !.constructed = TRUE]
    /\ stdout' = stdout \o << << "Start client." >>, << "------------------------" >> >>
    /\ pc' = "client"
    /\ UNCHANGED << argv, file, arg_config, config, commander, exitcode, raised,
                    handlers, popenCalls >>

\* App.__init__: client.on_message_listener = AppOnMessageListener().
RegisterListener ==
    /\ pc = "client"
    /\ client' = [client EXCEPT !.listener = TRUE]
    /\ pc' = "registered"
    /\ UNCHANGED << argv, file, arg_config, config, commander, exitcode, raised,
                    stdout, handlers, popenCalls >>

\* App.__init__: client.run(appid=config.appid, secret=config.secret). The
\* arguments are evaluated first, appid before secret.
ClientRun ==
    /\ pc = "registered"
    /\ LET a == appid(config[1])
           s == secret(config[1])
       IN  IF a.exc # ""
           THEN Fail(a.exc, a.missing, << >>) /\ UNCHANGED client
           ELSE IF s.exc # ""
           THEN Fail(s.exc, s.missing, << >>) /\ UNCHANGED client
           ELSE /\ client' = [client EXCEPT !.started = TRUE]
                /\ pc' = "running"
                /\ UNCHANGED << raised, exitcode, stdout >>
    /\ UNCHANGED << argv, file, arg_config, config, commander, handlers, popenCalls >>

-----------------------------------------------------------------------------
\* The run loop: direct messages arrive while client.run() is running.

Authors == { << "u1" >> }

\* The contents delivered in the full model: one per shape of command in
\* CommandTable, some with surrounding whitespace, and three names that are no
\* key (one differing from a key in case only, and the empty content).
Inbound ==
    { << " ", "p", "\t" >>, << "p", "p" >>, << "P" >>, << "p", " ", "p" >>,
      << "P", "P" >>, << "p", "P" >>, << "P", " ", "P" >>,
      << "P", "p" >>, << "p", "p", "p" >>, << >> }

\* BotClient.on_direct_message_create up to its `await`: the log line, the
\* listener's on_direct_message_create (which dispatches the command), and the
\* reply ready to be sent. An exception leaving the listener ends the coroutine
\* without a reply.
Invocation(message, os) ==
    LET r == on_direct_message_create(commander[1], message, os)
    IN  [author |-> message.author,
         content |-> message.content,
         cmd_name |-> r.cmd_name,
         ret |-> r.ret,
         raised |-> r.raised,
         called |-> r.called,
         reply_content |-> r.reply_content,
         logs |-> << [level |-> "INFO", fmt |-> "Received direct message from %s: %s",
                      args |-> << message.author, message.content >>] >> \o r.logs,
         printed |-> r.printed,
         child |-> IF r.created THEN "running" ELSE "none",
         sent |-> << >>,
         st |-> IF r.raised # "" THEN "raised" ELSE "awaiting"]

\* A direct message with a content from S arrives (at most cap in a run).
DirectMessageCreate(S, cap) ==
    /\ pc = "running"
    /\ client.listener
    /\ Len(handlers) < cap
    /\ \E author \in Authors, content \in S, os \in OsOutcomes :
          LET h == Invocation([author |-> author, content |-> content], os)
          IN  /\ handlers' = Append(handlers, h)
              /\ popenCalls' = popenCalls + (IF h.called THEN 1 ELSE 0)
              /\ stdout' = stdout \o h.printed
    /\ UNCHANGED << argv, file, pc, arg_config, config, commander, client,
                    exitcode, raised >>

\* A handler that waits for the child it started before replying (not what
\* the code does).
ReadyToReplyAfterExit(h) == h.st = "awaiting" /\ h.child # "running"

\* Whether invocation h may proceed to `await message.reply(...)`: the listener
\* has returned, and nothing in the handler waits for the child it started.
ReadyToReply(h) == h.st = "awaiting"

\* `await message.reply(content=reply_content)` completes for invocation i.
MessageReply(i) ==
    /\ pc = "running"
    /\ i \in 1..Len(handlers)
    /\ ReadyToReply(handlers[i])
    /\ handlers' = [handlers EXCEPT ![i].st = "replied",
                                    ![i].sent = Append(@, handlers[i].reply_content[1])]
    /\ UNCHANGED << argv, file, pc, arg_config, config, commander, client,
                    exitcode, raised, stdout, popenCalls >>

\* A child process started by invocation i exits. Nothing in the program
\* observes it: no handle is kept, so this changes no program state.
ChildExit(i) ==
    /\ i \in 1..Len(handlers)
    /\ handlers[i].child = "running"
    /\ handlers' = [handlers EXCEPT ![i].child = "exited"]
    /\ UNCHANGED << argv, file, pc, arg_config, config, commander, client,
                    exitcode, raised, stdout, popenCalls >>

\* client.run() returns: App.__init__ and main's try block end, main returns
\* through its else clause.
RunReturns ==
    /\ pc = "running"
    /\ client' = [client EXCEPT !.returned = TRUE]
    /\ pc' = "exited"
    /\ exitcode' = Some(main_return(""))
    /\ UNCHANGED << argv, file, arg_config, config, commander, raised, stdout,
                    handlers, popenCalls >>

\* client.run() raises (the SDK fails to connect or authenticate).
RunRaises ==
    /\ pc = "running"
    /\ Fail("ServerError", "client.run failed", << >>)
    /\ UNCHANGED << argv, file, arg_config, config, commander, client,
                    handlers, popenCalls >>

Next ==
    \/ ParseArgs
    \/ LoadConfig
    \/ BuildCommander
    \/ ConstructClient
    \/ RegisterListener
    \/ ClientRun
    \/ DirectMessageCreate(Inbound, MaxMsgs)
    \/ \E i \in 1..MaxMsgs : MessageReply(i)
    \/ \E i \in 1..MaxMsgs : ChildExit(i)
    \/ RunReturns
    \/ RunRaises

Spec == Init /\ [][Next]_vars

\* The event loop resumes a coroutine whose awaited send has completed; nothing
\* is assumed about child processes, new messages or the loop's end.
FairSpec == Spec /\ \A i \in 1..MaxMsgs : WF_vars(MessageReply(i))

-----------------------------------------------------------------------------
\* The handler as a function of the content: the application is running with
\* the complete document, and one message with any content of at most MaxLen
\* characters is handled.

TrimInit ==
    /\ argv = << "-c", "conf.json" >>
    /\ file = [status |-> "ok", doc |-> 1]
    /\ pc = "running"
    /\ arg_config = Some("conf.json")
    /\ config = Some(Docs[1])
    /\ commander = Some(CommandTable)
    /\ client = [constructed |-> TRUE, listener |-> TRUE, started |-> TRUE,
                 returned |-> FALSE]
    /\ exitcode = None
    /\ raised = ""
    /\ stdout = << << "Loading config..." >>, << "Config loaded." >>,
                   << "Start client." >>, << "------------------------" >> >>
    /\ handlers = << >>
    /\ popenCalls = 0

TrimNext ==
    \/ DirectMessageCreate(Texts(MaxLen), 1)
    \/ \E i \in 1..MaxMsgs : MessageReply(i)

TrimSpec == TrimInit /\ [][TrimNext]_vars

\* TrimInit is a state of Spec: the state ClientRun leaves.
TrimInitReached == TrimInit

-----------------------------------------------------------------------------
\* Vocabulary of the properties.

Handled == 1..Len(handlers)

Table == commander[1]

InTable(h) == h.cmd_name \in DOMAIN Table

HasExecute(h) == InTable(h) /\ "execute" \in DOMAIN Table[h.cmd_name]

\* The last entry an invocation logged: the handler's verdict on the command.
LastLog(h) == h.logs[Len(h.logs)]

LoggedFailed(h) ==
    LastLog(h) = [level |-> "INFO", fmt |-> "Failed command from %s: %s",
                  args |-> << h.author, h.cmd_name >>]

LoggedExecuted(h) ==
    LastLog(h) = [level |-> "INFO", fmt |-> "Executed command from %s: %s -> %s",
                  args |-> << h.author, h.cmd_name, h.reply_content[1] >>]

LoggedError(h) ==
    \E k \in 1..Len(h.logs) : h.logs[k].level = "ERROR" /\ h.logs[k].args = << h.cmd_name >>

\* The handler answered with the generic failure text.
GenericFailure(h) ==
    /\ h.st # "raised"
    /\ h.reply_content = Some(FAILED_REPLY)
    /\ (h.st = "replied" => h.sent = << FAILED_REPLY >>)

\* Process creation was requested for h and refused (Popen raised).
LaunchFailed(h) == h.called /\ h.child = "none"

\* Process creation succeeded for h.
Launched(h) == h.child # "none"

-----------------------------------------------------------------------------
\* C1. If process creation fails for a command with a non-empty execute
\* vector, the reply is exactly "Failed to execute command.", the outcome is
\* logged as a failed command, and the handler does not crash.
C1_LaunchFailureRepliesGeneric ==
    \A i \in Handled :
        LET h == handlers[i]
        IN  (HasExecute(h) /\ Table[h.cmd_name].execute # << >> /\ LaunchFailed(h))
            => GenericFailure(h) /\ LoggedFailed(h)

\* C2. A name that is no key of the command table is answered with the
\* not-found indicator (None) without any call to Popen, and the handler
\* replies "Failed to execute command."; this holds for every invocation,
\* whatever was dispatched before, and Popen is called only by invocations
\* whose name is a key.
C2_UnknownNameNotFound ==
    /\ \A i \in Handled :
          LET h == handlers[i]
          IN  ~InTable(h) =>
                 /\ h.ret = None
                 /\ ~h.called
                 /\ h.child = "none"
                 /\ GenericFailure(h)
                 /\ LoggedFailed(h)
    /\ popenCalls = Cardinality({i \in Handled : handlers[i].called})
    /\ \A i \in Handled : handlers[i].called => InTable(handlers[i])

\* An unknown name answered after an earlier dispatch has started a child.
C2_Witness ==
    /\ Len(handlers) = 2
    /\ Launched(handlers[1])
    /\ ~InTable(handlers[2])
    /\ handlers[2].st = "replied"
    /\ handlers[2].sent = << FAILED_REPLY >>

\* What the handler does for the same message when the table lacks the name.
NotFoundInvocation(h) ==
    on_direct_message_create(
        [k \in DOMAIN Table \ {h.cmd_name} |-> Table[k]],
        [author |-> h.author, content |-> h.content], "ok")

ConfiguredResponse(h) == GetOr(Table[h.cmd_name], "response", << >>)

\* C4 as stated. After a successful process creation for a valid spec,
\* dispatch returns the configured response or "", the handler replies with it
\* if non-empty and with "Executed command successfully." otherwise, and the
\* reply is never empty and never the generic failure text.
C4_SuccessNeverGenericFailure ==
    \A i \in Handled :
        LET h == handlers[i]
        IN  (HasExecute(h) /\ Table[h.cmd_name].execute # << >> /\ Launched(h)) =>
               /\ h.ret = Some(ConfiguredResponse(h))
               /\ h.reply_content =
                     Some(IF ConfiguredResponse(h) # << >>
                          THEN ConfiguredResponse(h) ELSE EXECUTED_REPLY)
               /\ h.reply_content[1] # << >>
               /\ h.reply_content[1] # FAILED_REPLY

\* C4 (amended). As above, except that the reply is the generic failure text
\* exactly when that text is the configured response; the outcome is always
\* logged as an executed command, never as a failed one.
C4_SuccessReply ==
    \A i \in Handled :
        LET h == handlers[i]
        IN  Launched(h) =>
               /\ h.st # "raised"
               /\ h.ret = Some(ConfiguredResponse(h))
               /\ h.reply_content =
                     Some(IF ConfiguredResponse(h) # << >>
                          THEN ConfiguredResponse(h) ELSE EXECUTED_REPLY)
               /\ h.reply_content[1] # << >>
               /\ (h.reply_content[1] = FAILED_REPLY <=> ConfiguredResponse(h) = FAILED_REPLY)
               /\ LoggedExecuted(h)
               /\ (h.st = "replied" => h.sent = << h.reply_content[1] >>)

\* A launched command without a configured response, answered with the
\* canned success text.
C4_Witness ==
    \E i \in Handled :
        /\ Launched(handlers[i])
        /\ "response" \notin DOMAIN Table[handlers[i].cmd_name]
        /\ handlers[i].st = "replied"
        /\ handlers[i].sent = << EXECUTED_REPLY >>

\* C5. Dispatch is fire-and-forget: once the handler has dispatched, its reply
\* can be sent whatever the state of the child, and it is eventually sent
\* while the run loop runs, even if the child never exits.
C5_ReplyWithoutWaiting ==
    /\ [](\A i \in Handled :
             (pc = "running" /\ handlers[i].st = "awaiting") => ENABLED MessageReply(i))
    /\ \A i \in 1..MaxMsgs :
          (i \in Handled /\ handlers[i].st = "awaiting")
             ~> ((i \in Handled /\ handlers[i].st = "replied") \/ pc # "running")

\* Two messages answered while the children both started are still running.
C5_Witness ==
    /\ Len(handlers) = 2
    /\ \A i \in Handled : handlers[i].child = "running" /\ handlers[i].st = "replied"

\* C6. No dispatch failure leaves the handler: every invocation yields exactly
\* one reply text, sent at most once; the run loop ends only when client.run
\* itself returns or raises; and while it runs the next message is accepted.
C6_FailuresStayInHandler ==
    /\ \A i \in Handled :
          LET h == handlers[i]
          IN  /\ h.raised = ""
              /\ h.st \in {"awaiting", "replied"}
              /\ Len(h.reply_content) = 1
              /\ h.sent = IF h.st = "replied" THEN << h.reply_content[1] >> ELSE << >>
    /\ (pc = "exited" /\ client.started) => (client.returned \/ raised = "ServerError")
    /\ (client.started /\ ~client.returned /\ raised = "") => pc = "running"
    /\ (pc = "running" /\ Len(handlers) < MaxMsgs)
          => ENABLED DirectMessageCreate(Inbound, MaxMsgs)

\* A refused launch and then a spec without `execute`, both answered, with the
\* run loop still running.
C6_Witness ==
    /\ pc = "running"
    /\ Len(handlers) = 2
    /\ LaunchFailed(handlers[1])
    /\ InTable(handlers[2]) /\ ~HasExecute(handlers[2])
    /\ \A i \in Handled : handlers[i].st = "replied"

-----------------------------------------------------------------------------
\* The config document loaded lacks `appid` or `secret`.
MissingRequired ==
    /\ config # None
    /\ ~({"appid", "secret"} \subseteq DOMAIN config[1])

\* The first required key, in the order client.run's arguments are evaluated,
\* that the document lacks.
FirstMissing == IF "appid" \notin DOMAIN config[1] THEN "appid" ELSE "secret"

\* C7 as stated. With a document missing `appid` or `secret`, access to the
\* field fails with ConfigError naming the key, and no later bootstrap step
\* (building the Commander, constructing the client, registering the handler,
\* starting the run loop) uses the partially valid Config.
C7_NoBootstrapStepUsesPartialConfig ==
    MissingRequired =>
        /\ commander = None
        /\ ~client.constructed
        /\ ~client.listener
        /\ ~client.started
        /\ (pc = "exited" => raised = "ConfigError")

\* C7 (amended). With a document missing `appid` or `secret`, the accessor of
\* the missing field fails with ConfigError naming the key and yields no
\* value; the failure surfaces when client.run's arguments are evaluated, so
\* the run loop is never started and no message is handled, and the process
\* ends with ConfigError for the first missing key and exit code 1. (The
\* Commander is built, the client constructed and the listener registered
\* before that.)
C7_MissingRequiredFailsBeforeRun ==
    MissingRequired =>
        /\ \A key \in {"appid", "secret"} \ DOMAIN config[1] :
              LET a == IF key = "appid" THEN appid(config[1]) ELSE secret(config[1])
              IN  a.exc = "ConfigError" /\ a.missing = key /\ a.value = None
        /\ ~client.started
        /\ pc # "running"
        /\ handlers = << >>
        /\ (pc = "exited" =>
               /\ raised = "ConfigError"
               /\ exitcode = Some(1)
               /\ stdout[Len(stdout)] = ErrorLine("ConfigError", FirstMissing))

\* Startup has failed on the missing key after the Commander was built and the
\* listener registered.
C7_Witness ==
    /\ MissingRequired
    /\ pc = "exited"
    /\ raised = "ConfigError"
    /\ commander # None
    /\ client.listener

\* C8 as stated. The exit code is 1 whenever the process ends without the run
\* loop having returned normally, and 0 only when the run loop was started and
\* returned without raising.
C8_ExitOneOnEveryStartupFailure ==
    pc = "exited" =>
        /\ (~(client.started /\ client.returned) => exitcode = Some(1))
        /\ (exitcode = Some(0) => (client.started /\ client.returned))

\* C8 (amended). For a command line argparse accepts (no -h, no usage error),
\* the exit code is 1 whenever an exception was raised before or during
\* bootstrap and the run loop (flag omitted, unreadable file, invalid JSON,
\* missing required key, client.run raising), and 0 exactly when the run loop
\* was started and returned without raising. A command line argparse ends
\* itself exits with argparse's status (0 for -h, 2 for a usage error) before
\* the config is loaded.
C8_ExitCodes ==
    pc = "exited" =>
        IF parse_args(argv).exit = None
        THEN /\ exitcode \in {Some(0), Some(1)}
             /\ (exitcode = Some(1) <=> raised # "")
             /\ (exitcode = Some(0) <=> (client.started /\ client.returned))
             /\ (~client.started => exitcode = Some(1))
             /\ (arg_config = None => raised = "ValueError")
             /\ ((arg_config # None /\ file.status # "ok") => raised = file.status)
        ELSE /\ exitcode = parse_args(argv).exit
             /\ exitcode \in {Some(0), Some(2)}
             /\ config = None
             /\ ~client.started

\* The config file is not valid JSON: the process has ended with code 1.
C8_Witness ==
    /\ pc = "exited"
    /\ arg_config # None
    /\ file.status = "JSONDecodeError"
    /\ raised = "JSONDecodeError"
    /\ exitcode = Some(1)

\* s is n whitespace characters.
Blank(s) == \A k \in 1..Len(s) : s[k] \in Whitespace

\* name is content without its leading and trailing whitespace, and nothing
\* else removed or changed.
OuterTrimOf(name, content) ==
    /\ \E a, b \in 0..Len(content) :
          /\ a + Len(name) + b = Len(content)
          /\ Blank(SubSeq(content, 1, a))
          /\ SubSeq(content, a + 1, a + Len(name)) = name
          /\ Blank(SubSeq(content, a + Len(name) + 1, Len(content)))
    /\ name # << >> => (name[1] \notin Whitespace /\ name[Len(name)] \notin Whitespace)

\* C9. The name dispatched is the content with only its outer whitespace
\* removed, matched exactly against the keys: a name that is a key gets that
\* key's outcome (for `p`, once launched, the reply "pong!"), and a name that
\* is no key gets the generic failure reply.
C9_TrimmedExactMatch ==
    \A i \in Handled :
        LET h == handlers[i]
        IN  /\ OuterTrimOf(h.cmd_name, h.content)
            /\ (h.cmd_name \notin DOMAIN CommandTable => GenericFailure(h) /\ ~h.called)
            /\ (h.cmd_name \in DOMAIN CommandTable /\ Launched(h)) =>
                   h.reply_content =
                      Some(ReplyContent(GetOr(CommandTable[h.cmd_name], "response", << >>)))
            /\ (h.cmd_name = << "p" >> /\ Launched(h)) =>
                   h.reply_content = Some(<< "pong!" >>)
            /\ (h.cmd_name \in DOMAIN CommandTable /\ "execute" \in DOMAIN CommandTable[h.cmd_name])
                   <=> h.called

\* " p " has been answered with "pong!".
C9_Witness ==
    \E i \in Handled :
        /\ handlers[i].content = << " ", "p", " " >>
        /\ handlers[i].cmd_name = << "p" >>
        /\ handlers[i].st = "replied"
        /\ handlers[i].sent = << << "pong!" >> >>

\* C10. A command whose `execute` is an empty vector is rejected before any
\* launch: the error is logged, None is returned without a call to Popen, and
\* the handler replies with the generic failure text.
C10_EmptyExecuteMalformed ==
    \A i \in Handled :
        LET h == handlers[i]
        IN  (HasExecute(h) /\ Table[h.cmd_name].execute = << >>) =>
               /\ ~h.called
               /\ h.child = "none"
               /\ h.ret = None
               /\ LoggedError(h)
               /\ GenericFailure(h)

====
